---- MODULE Spec2Model ----
(***************************************************************************)
(* SPL1 for RISC-V: the Intel CFI NOR flash driver and the A/B boot-attempt *)
(* log built on it, as a state machine.                                     *)
(*                                                                          *)
(* The repository holds the program twice: src/main.rs (the driver polls    *)
(* the status register and really erases) and the modular files             *)
(* src/bootmeta.rs + src/flash_intel.rs (the driver neither polls nor       *)
(* erases).  The variable "driver" says which flash driver is linked        *)
(* ("poll" for main.rs, "stub" for flash_intel.rs); the boot log code is    *)
(* the same in both.  The variable "caller" says who calls the boot log:    *)
(* spl_main (one scan / choose_bank / record_boot per boot) or a test       *)
(* harness calling the public operations in any order.                      *)
(*                                                                          *)
(* A u32 is a pair <<high half, low half>> of 16-bit numbers and a byte is  *)
(* a number 0..255.  One step of the machine is at most one volatile write  *)
(* to the device, or one read of the status register.                       *)
(***************************************************************************)
EXTENDS Integers, Sequences, FiniteSets, TLC

\* ---------------------------------------------------------------- bounds

\* Bytes handed to one program call of the harness.
ProgLen == 2

\* Slots of the boot log in the small configurations (META_SIZE / WORD_SIZE).
CapWords == 2

\* Index of the erase block that holds the log (255 in main.rs).
MetaBlock == 1

\* Polls of the status register before Timeout (1_000_000 in main.rs).
MaxPolls == 2

\* Largest max_trials the harness passes to choose_bank.
MaxT == 3

\* ------------------------------------------------------ program constants

WORD_SIZE == 4

MAX_TRIALS == 4

CMD_READ_ARRAY == 255

CMD_READ_STATUS == 112

CMD_CLEAR_STATUS == 80

CMD_BLOCK_ERASE_SETUP == 32

CMD_BLOCK_ERASE_CONFIRM == 208

CMD_PROGRAM == 64

SR_WSM_READY == 128

SR_ERASE_ERROR == 32

SR_PROGRAM_ERROR == 16

SR_VPP_ERROR == 8

SR_PROTECT_ERROR == 2

ERASED_WORD == <<65535, 65535>>

TOKEN_BANK_A == <<4369, 4369>>

TOKEN_BANK_B == <<0, 0>>

BootBank == {"A", "B"}

FlashError == {"Timeout", "ProgramError", "EraseError", "VppError", "Protected"}

\* `Ok(())` of a Result<(), FlashError>, and "no call has returned yet".
Ok == "Ok"

None == "None"

\* No triple, pair or array yet.
Nothing == <<>>

Byte == 0..255

\* ------------------------------------------------------------ bit algebra

RECURSIVE BitOrFrom(_, _, _)
BitOrFrom(x, y, k) ==
    IF k = 8 THEN 0
    ELSE (IF (x \div (2^k)) % 2 = 1 \/ (y \div (2^k)) % 2 = 1 THEN 2^k ELSE 0)
         + BitOrFrom(x, y, k + 1)

\* x | y on u8
BitOr(x, y) == BitOrFrom(x, y, 0)

RECURSIVE BitAndFrom(_, _, _)
BitAndFrom(x, y, k) ==
    IF k = 8 THEN 0
    ELSE (IF (x \div (2^k)) % 2 = 1 /\ (y \div (2^k)) % 2 = 1 THEN 2^k ELSE 0)
         + BitAndFrom(x, y, k + 1)

\* x & y on u8
BitAnd(x, y) == BitAndFrom(x, y, 0)

\* u32::to_le_bytes: least significant byte first.
to_le_bytes(w) == << w[2] % 256, w[2] \div 256, w[1] % 256, w[1] \div 256 >>

\* u32::from_le_bytes
from_le_bytes(b) == << b[4] * 256 + b[3], b[2] * 256 + b[1] >>

\* ------------------------------------------------------------------ state

VARIABLES
    driver,        \* "poll" (main.rs) or "stub" (flash_intel.rs)
    caller,        \* "spl_main" or "harness"
    flash,         \* IntelFlash: [block_size]
    meta,          \* BootMeta: [meta_offset, meta_size]
    mem,           \* the flash array, byte offset -> byte
    devMode,       \* what a plain read returns: "array" or "status"
    pc,            \* where the program is
    bank,          \* record_boot's argument / spl_main's chosen bank
    a_count,       \* record_boot / compact local
    b_count,       \* record_boot / compact local
    next_idx,      \* record_boot local
    idx,           \* compact local
    site,          \* who called program (or program_byte, for harness_byte)
    flash_offset,  \* program's argument
    data,          \* program's argument
    i,             \* program's loop index
    op,            \* who called wait_ready: "program" or "erase"
    polls,         \* wait_ready's i
    sr,            \* the status wait_ready returned
    ret,           \* the Result of the operation that returned last
    scanRes,       \* what the last scan() call returned
    prevScan,      \* what the scan() call before it returned, None after a write
    choice,        \* what the last choose_bank call returned, with its max_trials
    exhausted,     \* the max_trials both counts of some scan() so far had reached
    torn,          \* the slot and bank of the append the last power loss tore
    hwWrites,      \* volatile writes to the device since the operation was called
    lastCmd,       \* the last byte written to the device as a command
    eraseCalls,    \* block_erase calls since the operation was called
    wrote,         \* a volatile write since the last scan() call
    pre,           \* scan() at the moment the operation was called
    mem0           \* mem at the moment the operation was called

cfgVars == <<driver, caller, flash, meta>>

devVars == <<mem, devMode>>

bootVars == <<bank, a_count, b_count, next_idx, idx>>

progVars == <<site, flash_offset, data, i>>

waitVars == <<op, polls, sr>>

resVars == <<scanRes, prevScan, choice, exhausted, torn>>

hwVars == <<hwWrites, lastCmd, wrote>>

callVars == <<eraseCalls, pre, mem0>>

vars == <<cfgVars, devVars, pc, bootVars, progVars, waitVars, ret, resVars,
          hwVars, callVars>>

\* ------------------------------------------------------- reads of the log

block_size == flash.block_size

meta_offset == meta.meta_offset

meta_size == meta.meta_size

words_capacity == meta_size \div WORD_SIZE

word_offset(n) == meta_offset + n * WORD_SIZE

\* The byte the token of bank x is made of.
TokenByte(x) == IF x = "A" THEN 17 ELSE 0

\* In the flash contents m, slot n holds the first 1 to 3 bytes of bank x's
\* token and erased bytes after them.
TornSlot(m, n, x) ==
    \E j \in 1..(WORD_SIZE - 1) :
        \A k \in 1..WORD_SIZE :
            m[word_offset(n) + k - 1] = IF k <= j THEN TokenByte(x) ELSE 255

\* A volatile read: array data, or the status register while the device is
\* in read-status mode.
read_u8(offset) == IF devMode = "status" THEN sr ELSE mem[offset]

read_slice(offset, len) == [k \in 1..len |-> read_u8(offset + k - 1)]

read_u32_le(offset) == from_le_bytes(read_slice(offset, 4))

read_word(n) == read_u32_le(word_offset(n))

\* scan's loop as it would be if an Unknown word were stepped over instead
\* of ending the scan.
RECURSIVE ScanLoopSkipping(_, _, _)
ScanLoopSkipping(a, b, n) ==
    IF n < words_capacity
    THEN LET w == read_word(n) IN
         IF w = ERASED_WORD THEN <<a, b, n>>
         ELSE IF w = TOKEN_BANK_A THEN ScanLoopSkipping(a + 1, b, n + 1)
         ELSE IF w = TOKEN_BANK_B THEN ScanLoopSkipping(a, b + 1, n + 1)
         ELSE ScanLoopSkipping(a, b, n + 1)
    ELSE <<a, b, n>>

RECURSIVE ScanLoop(_, _, _)
ScanLoop(a, b, n) ==
    IF n < words_capacity
    THEN LET w == read_word(n) IN
         IF w = ERASED_WORD THEN <<a, b, n>>
         ELSE IF w = TOKEN_BANK_A THEN ScanLoop(a + 1, b, n + 1)
         ELSE IF w = TOKEN_BANK_B THEN ScanLoop(a, b + 1, n + 1)
         ELSE <<a, b, n>>
    ELSE <<a, b, n>>

\* scan as it would be if idx were kept between calls instead of starting
\* at 0.
scan_resumed == ScanLoop(0, 0, IF scanRes = Nothing THEN 0 ELSE scanRes[3])

\* (a_count, b_count, next_free_index)
scan == ScanLoop(0, 0, 0)

\* choose_bank as it would be with bank A asked first.
choose_bank_a_first(max_trials) ==
    LET s == scan IN
    IF s[1] < max_trials THEN "A"
    ELSE IF s[2] < max_trials THEN "B"
    ELSE "B"

\* choose_bank as it would be with <= for <.
choose_bank_le(max_trials) ==
    LET s == scan IN
    IF s[2] <= max_trials THEN "B"
    ELSE IF s[1] <= max_trials THEN "A"
    ELSE "B"

choose_bank(max_trials) ==
    LET s == scan IN
    IF s[2] < max_trials THEN "B"
    ELSE IF s[1] < max_trials THEN "A"
    ELSE "B"

\* ----------------------------------------------------------- the device

\* The status values the device may return: every combination of the ready
\* bit and the four error bits the driver decodes.
StatusVals ==
    { r * SR_WSM_READY + e * SR_ERASE_ERROR + p * SR_PROGRAM_ERROR
        + v * SR_VPP_ERROR + w * SR_PROTECT_ERROR :
      r \in 0..1, e \in 0..1, p \in 0..1, v \in 0..1, w \in 0..1 }

Has(status, bit) == BitAnd(status, bit) # 0

\* NOR programming clears bits and sets none.
Programmed(m, offset, value) ==
    IF offset \in DOMAIN m
    THEN [m EXCEPT ![offset] = BitAnd(@, value)]
    ELSE m

\* A block erase sets every bit of the block.
Erased(m, block_base) ==
    [a \in DOMAIN m |->
        IF block_base <= a /\ a < block_base + block_size THEN 255 ELSE m[a]]

\* write_cmd8: one volatile write of a command byte.
write_cmd8(cmd) ==
    /\ hwWrites' = hwWrites + 1
    /\ lastCmd' = cmd
    /\ wrote' = TRUE

\* write_data8: one volatile write of a data byte.
write_data8 ==
    /\ hwWrites' = hwWrites + 1
    /\ lastCmd' = lastCmd
    /\ wrote' = TRUE

\* ------------------------------------------------------ status decoding

\* program_byte's decoding as it would be with the Vpp bit tested first.
program_status_vpp_first(status) ==
    IF Has(status, SR_VPP_ERROR) THEN "VppError"
    ELSE IF Has(status, SR_PROGRAM_ERROR) THEN "ProgramError"
    ELSE IF Has(status, SR_PROTECT_ERROR) THEN "Protected"
    ELSE Ok

\* program_byte's reading of the status wait_ready returned.
program_status(status) ==
    IF Has(status, SR_PROGRAM_ERROR) THEN "ProgramError"
    ELSE IF Has(status, SR_VPP_ERROR) THEN "VppError"
    ELSE IF Has(status, SR_PROTECT_ERROR) THEN "Protected"
    ELSE Ok

\* block_erase's reading of the status wait_ready returned.
erase_status(status) ==
    IF Has(status, SR_ERASE_ERROR) THEN "EraseError"
    ELSE IF Has(status, SR_VPP_ERROR) THEN "VppError"
    ELSE IF Has(status, SR_PROTECT_ERROR) THEN "Protected"
    ELSE Ok

\* ------------------------------------------------------------- returning

\* record_boot (or the harness's program call) returns r to its caller.
ApiReturn(r) ==
    /\ ret' = r
    /\ pc' = IF caller = "spl_main" THEN "spl_main_result" ELSE "returned"

\* program returns r to write_word's caller: compact's loops go on after
\* Ok, and `?` hands an error up through compact and record_boot.
ProgramReturns(r) ==
    IF r = Ok /\ site = "compact_a"
    THEN /\ pc' = "compact_a"
         /\ idx' = idx + 1
         /\ a_count' = a_count - 1
         /\ UNCHANGED <<b_count, ret>>
    ELSE IF r = Ok /\ site = "compact_b"
    THEN /\ pc' = "compact_b"
         /\ idx' = idx + 1
         /\ b_count' = b_count - 1
         /\ UNCHANGED <<a_count, ret>>
    ELSE /\ ApiReturn(r)
         /\ UNCHANGED <<idx, a_count, b_count>>

\* program's loop as it would be if it went on to the next byte whatever
\* program_byte returned.
ProgramByteReturns_swallowed(r) ==
    /\ i' = i + 1
    /\ pc' = "program"
    /\ UNCHANGED <<idx, a_count, b_count, ret>>

\* program_byte returns r: to the harness when the harness called it;
\* otherwise to program, whose loop goes on after Ok and whose `?` hands an
\* error up.
ProgramByteReturns(r) ==
    IF site = "harness_byte"
    THEN /\ i' = i
         /\ ApiReturn(r)
         /\ UNCHANGED <<idx, a_count, b_count>>
    ELSE IF r = Ok
    THEN /\ i' = i + 1
         /\ pc' = "program"
         /\ UNCHANGED <<idx, a_count, b_count, ret>>
    ELSE /\ i' = i
         /\ ProgramReturns(r)

\* write_word(n, value) calls program(word_offset(n), value.to_le_bytes()).
write_word(n, value, from) ==
    /\ site' = from
    /\ flash_offset' = word_offset(n)
    /\ data' = to_le_bytes(value)
    /\ i' = 0
    /\ pc' = "program"

\* --------------------------------------------------------------- BootMeta

\* record_boot as it would be without the test for a full log.
record_boot_unchecked ==
    /\ pc = "record_boot"
    /\ LET s == scan IN
       /\ a_count' = s[1]
       /\ b_count' = s[2]
       /\ next_idx' = s[3]
       /\ pc' = "write_token"
    /\ UNCHANGED <<cfgVars, devVars, bank, idx, progVars, waitVars, ret,
                   resVars, hwVars, callVars>>

\* record_boot, up to its choice between appending and compacting.
record_boot ==
    /\ pc = "record_boot"
    /\ LET s == scan IN
       /\ a_count' = s[1]
       /\ b_count' = s[2]
       /\ next_idx' = s[3]
       /\ pc' = IF s[3] >= words_capacity THEN "compact" ELSE "write_token"
    /\ UNCHANGED <<cfgVars, devVars, bank, idx, progVars, waitVars, ret,
                   resVars, hwVars, callVars>>

\* compact, up to its call of block_erase; a division by zero panics.
compact ==
    /\ pc = "compact"
    /\ pc' = IF block_size = 0 THEN "panic" ELSE "block_erase"
    /\ UNCHANGED <<cfgVars, devVars, bootVars, progVars, waitVars, ret,
                   resVars, hwVars, callVars>>

\* compact's first loop as it would be writing BankB tokens.
compact_a_as_b ==
    /\ pc = "compact_a"
    /\ IF a_count > 0
       THEN write_word(idx, TOKEN_BANK_B, "compact_a")
       ELSE /\ pc' = "compact_b"
            /\ UNCHANGED progVars
    /\ UNCHANGED <<cfgVars, devVars, bootVars, waitVars, ret, resVars,
                   hwVars, callVars>>

\* compact's first loop: one BankA token per counted A boot.
compact_a ==
    /\ pc = "compact_a"
    /\ IF a_count > 0
       THEN write_word(idx, TOKEN_BANK_A, "compact_a")
       ELSE /\ pc' = "compact_b"
            /\ UNCHANGED progVars
    /\ UNCHANGED <<cfgVars, devVars, bootVars, waitVars, ret, resVars,
                   hwVars, callVars>>

\* compact's second loop, and its return of Ok to record_boot.
compact_b ==
    /\ pc = "compact_b"
    /\ IF b_count > 0
       THEN write_word(idx, TOKEN_BANK_B, "compact_b")
       ELSE /\ pc' = "rescan"
            /\ UNCHANGED progVars
    /\ UNCHANGED <<cfgVars, devVars, bootVars, waitVars, ret, resVars,
                   hwVars, callVars>>

\* record_boot after a compaction that returned Ok: the second scan.
rescan ==
    /\ pc = "rescan"
    /\ next_idx' = scan[3]
    /\ pc' = "write_token"
    /\ UNCHANGED <<cfgVars, devVars, bank, a_count, b_count, idx, progVars,
                   waitVars, ret, resVars, hwVars, callVars>>

\* record_boot's last statement as it would be writing one slot further.
write_token_after ==
    /\ pc = "write_token"
    /\ write_word(next_idx + 1,
                  IF bank = "A" THEN TOKEN_BANK_A ELSE TOKEN_BANK_B,
                  "record_boot")
    /\ UNCHANGED <<cfgVars, devVars, bootVars, waitVars, ret, resVars,
                   hwVars, callVars>>

\* record_boot's last statement as it would be with the two tokens swapped.
write_token_swapped ==
    /\ pc = "write_token"
    /\ write_word(next_idx,
                  IF bank = "A" THEN TOKEN_BANK_B ELSE TOKEN_BANK_A,
                  "record_boot")
    /\ UNCHANGED <<cfgVars, devVars, bootVars, waitVars, ret, resVars,
                   hwVars, callVars>>

\* record_boot's last statement: the bank's token at next_idx.
write_token ==
    /\ pc = "write_token"
    /\ write_word(next_idx,
                  IF bank = "A" THEN TOKEN_BANK_A ELSE TOKEN_BANK_B,
                  "record_boot")
    /\ UNCHANGED <<cfgVars, devVars, bootVars, waitVars, ret, resVars,
                   hwVars, callVars>>

\* ------------------------------------------ IntelFlash of flash_intel.rs

\* program's loop as it would be if it stopped one byte early.
stub_program_short ==
    /\ pc = "program"
    /\ driver = "stub"
    /\ IF i < Len(data) - 1
       THEN /\ pc' = "program_byte"
            /\ UNCHANGED <<idx, a_count, b_count, ret>>
       ELSE ProgramReturns(Ok)
    /\ UNCHANGED <<cfgVars, devVars, bank, next_idx, progVars, waitVars,
                   resVars, hwVars, callVars>>

\* program: the loop over the bytes, each handed to program_byte.
stub_program ==
    /\ pc = "program"
    /\ driver = "stub"
    /\ IF i < Len(data)
       THEN /\ pc' = "program_byte"
            /\ UNCHANGED <<idx, a_count, b_count, ret>>
       ELSE ProgramReturns(Ok)
    /\ UNCHANGED <<cfgVars, devVars, bank, next_idx, progVars, waitVars,
                   resVars, hwVars, callVars>>

\* program_byte: the 1->0 check, then the program command.
stub_program_byte ==
    /\ pc = "program_byte"
    /\ driver = "stub"
    /\ LET offset == flash_offset + i
           value == data[i + 1]
           current == read_u8(offset)
       IN  IF BitOr(value, current) # current
           THEN /\ ProgramByteReturns("ProgramError")
                /\ UNCHANGED hwVars
           ELSE /\ write_cmd8(CMD_PROGRAM)
                /\ pc' = "program_data"
                /\ UNCHANGED <<i, idx, a_count, b_count, ret>>
    /\ UNCHANGED <<cfgVars, devVars, bank, next_idx, site, flash_offset, data,
                   waitVars, resVars, callVars>>

\* program_byte: the data byte; the write is taken to complete at once.
stub_program_data ==
    /\ pc = "program_data"
    /\ driver = "stub"
    /\ write_data8
    /\ mem' = Programmed(mem, flash_offset + i, data[i + 1])
    /\ ProgramByteReturns(Ok)
    /\ UNCHANGED <<cfgVars, devMode, bank, next_idx, site, flash_offset, data,
                   waitVars, resVars, callVars>>

\* block_erase as it would be if it erased the array before failing.
stub_block_erase_erasing ==
    /\ pc = "block_erase"
    /\ driver = "stub"
    /\ eraseCalls' = eraseCalls + 1
    /\ mem' = [a \in DOMAIN mem |-> 255]
    /\ ApiReturn("EraseError")
    /\ UNCHANGED <<cfgVars, devMode, bootVars, progVars, waitVars, resVars,
                   hwVars, pre, mem0>>

\* block_erase: not implemented, EraseError without touching the device.
stub_block_erase ==
    /\ pc = "block_erase"
    /\ driver = "stub"
    /\ eraseCalls' = eraseCalls + 1
    /\ ApiReturn("EraseError")
    /\ UNCHANGED <<cfgVars, devVars, bootVars, progVars, waitVars, resVars,
                   hwVars, pre, mem0>>

\* ------------------------------------------------ IntelFlash of main.rs

\* block_index * block_size, for compact's block_index.
block_base == (meta_offset \div block_size) * block_size

\* program as it would be if it accepted erased bytes only.
program_erased_only ==
    /\ pc = "program"
    /\ driver = "poll"
    /\ IF i < Len(data)
       THEN LET current == read_u8(flash_offset + i)
            IN  IF current # 255
                THEN ProgramReturns("ProgramError")
                ELSE /\ pc' = "program_byte"
                     /\ UNCHANGED <<idx, a_count, b_count, ret>>
       ELSE ProgramReturns(Ok)
    /\ UNCHANGED <<cfgVars, devVars, bank, next_idx, progVars, waitVars,
                   resVars, hwVars, callVars>>

\* program: the loop over the bytes, with the 1->0 check before each call
\* of program_byte.
program ==
    /\ pc = "program"
    /\ driver = "poll"
    /\ IF i < Len(data)
       THEN LET current == read_u8(flash_offset + i)
                value == data[i + 1]
            IN  IF BitOr(value, current) # current
                THEN ProgramReturns("ProgramError")
                ELSE /\ pc' = "program_byte"
                     /\ UNCHANGED <<idx, a_count, b_count, ret>>
       ELSE ProgramReturns(Ok)
    /\ UNCHANGED <<cfgVars, devVars, bank, next_idx, progVars, waitVars,
                   resVars, hwVars, callVars>>

\* program_byte: clear_status.
program_byte ==
    /\ pc = "program_byte"
    /\ driver = "poll"
    /\ write_cmd8(CMD_CLEAR_STATUS)
    /\ pc' = "program_cmd"
    /\ UNCHANGED <<cfgVars, devVars, bootVars, progVars, waitVars, ret,
                   resVars, callVars>>

\* program_byte: the program command at the byte's address.
program_cmd ==
    /\ pc = "program_cmd"
    /\ write_cmd8(CMD_PROGRAM)
    /\ pc' = "program_data"
    /\ UNCHANGED <<cfgVars, devVars, bootVars, progVars, waitVars, ret,
                   resVars, callVars>>

\* program_byte: the data byte, then wait_ready(1_000_000).
program_data ==
    /\ pc = "program_data"
    /\ driver = "poll"
    /\ write_data8
    /\ op' = "program"
    /\ pc' = "wait_ready"
    /\ UNCHANGED <<cfgVars, devVars, bootVars, progVars, polls, sr, ret,
                   resVars, callVars>>

\* block_erase: clear_status.
block_erase ==
    /\ pc = "block_erase"
    /\ driver = "poll"
    /\ eraseCalls' = eraseCalls + 1
    /\ write_cmd8(CMD_CLEAR_STATUS)
    /\ pc' = "erase_setup"
    /\ UNCHANGED <<cfgVars, devVars, bootVars, progVars, waitVars, ret,
                   resVars, pre, mem0>>

\* block_erase: the erase setup command at the block's base.
erase_setup ==
    /\ pc = "erase_setup"
    /\ write_cmd8(CMD_BLOCK_ERASE_SETUP)
    /\ pc' = "erase_confirm"
    /\ UNCHANGED <<cfgVars, devVars, bootVars, progVars, waitVars, ret,
                   resVars, callVars>>

\* block_erase: the confirm command, then wait_ready(1_000_000).
erase_confirm ==
    /\ pc = "erase_confirm"
    /\ write_cmd8(CMD_BLOCK_ERASE_CONFIRM)
    /\ op' = "erase"
    /\ pc' = "wait_ready"
    /\ UNCHANGED <<cfgVars, devVars, bootVars, progVars, polls, sr, ret,
                   resVars, callVars>>

\* wait_ready: enter_read_status and `let mut i = 0`.
wait_ready ==
    /\ pc = "wait_ready"
    /\ write_cmd8(CMD_READ_STATUS)
    /\ devMode' = "status"
    /\ polls' = 0
    /\ pc' = "wait_loop"
    /\ UNCHANGED <<cfgVars, mem, bootVars, progVars, op, sr, ret, resVars,
                   callVars>>

\* What the device has done once it reports ready: the byte is programmed,
\* or the block erased, unless the status carries an error the driver
\* decodes.
Completed(status) ==
    IF op = "program" /\ program_status(status) = Ok
    THEN Programmed(mem, flash_offset + i, data[i + 1])
    ELSE IF op = "erase" /\ erase_status(status) = Ok
    THEN Erased(mem, block_base)
    ELSE mem

\* wait_ready's loop as it would be with > for >= in the test of i.
wait_loop_one_more(s) ==
    /\ pc = "wait_loop"
    /\ IF Has(s, SR_WSM_READY)
       THEN /\ sr' = s
            /\ mem' = Completed(s)
            /\ pc' = IF op = "program" THEN "program_status" ELSE "erase_status"
            /\ UNCHANGED <<polls, i, idx, a_count, b_count, ret>>
       ELSE /\ polls' = polls + 1
            /\ UNCHANGED <<sr, mem>>
            /\ IF polls + 1 > MaxPolls
               THEN IF op = "program"
                    THEN ProgramByteReturns("Timeout")
                    ELSE /\ ApiReturn("Timeout")
                         /\ UNCHANGED <<i, idx, a_count, b_count>>
               ELSE UNCHANGED <<pc, i, idx, a_count, b_count, ret>>
    /\ UNCHANGED <<cfgVars, devMode, bank, next_idx, site, flash_offset, data,
                   op, resVars, hwVars, callVars>>

\* wait_ready: one turn of the loop, for a status read of s.
wait_loop(s) ==
    /\ pc = "wait_loop"
    /\ IF Has(s, SR_WSM_READY)
       THEN /\ sr' = s
            /\ mem' = Completed(s)
            /\ pc' = IF op = "program" THEN "program_status" ELSE "erase_status"
            /\ UNCHANGED <<polls, i, idx, a_count, b_count, ret>>
       ELSE /\ polls' = polls + 1
            /\ UNCHANGED <<sr, mem>>
            /\ IF polls + 1 >= MaxPolls
               THEN IF op = "program"
                    THEN ProgramByteReturns("Timeout")
                    ELSE /\ ApiReturn("Timeout")
                         /\ UNCHANGED <<i, idx, a_count, b_count>>
               ELSE UNCHANGED <<pc, i, idx, a_count, b_count, ret>>
    /\ UNCHANGED <<cfgVars, devMode, bank, next_idx, site, flash_offset, data,
                   op, resVars, hwVars, callVars>>

\* program_byte after wait_ready returned Ok(sr): return_to_read_array and
\* the decoded result; after Ok its locals are gone.
program_byte_status ==
    /\ pc = "program_status"
    /\ write_cmd8(CMD_READ_ARRAY)
    /\ devMode' = "array"
    /\ ProgramByteReturns(program_status(sr))
    /\ IF program_status(sr) = Ok
       THEN op' = None /\ polls' = 0 /\ sr' = 0
       ELSE UNCHANGED waitVars
    /\ UNCHANGED <<cfgVars, mem, bank, next_idx, site, flash_offset, data,
                   resVars, callVars>>

\* block_erase after wait_ready returned Ok(sr): return_to_read_array and
\* the decoded result; after Ok compact goes on with `let mut idx = 0`.
block_erase_status ==
    /\ pc = "erase_status"
    /\ write_cmd8(CMD_READ_ARRAY)
    /\ devMode' = "array"
    /\ IF erase_status(sr) = Ok
       THEN /\ pc' = "compact_a"
            /\ idx' = 0
            /\ ret' = ret
            /\ op' = None /\ polls' = 0 /\ sr' = 0
       ELSE /\ ApiReturn(erase_status(sr))
            /\ idx' = idx
            /\ UNCHANGED waitVars
    /\ UNCHANGED <<cfgVars, mem, bank, a_count, b_count, next_idx, progVars,
                   resVars, callVars>>

\* --------------------------------------------------------------- spl_main

\* The max_trials among ts that both counts of scan() have reached.
Reached(ts) == { t \in ts : scan[1] >= t /\ scan[2] >= t }

\* The locals of a call that has not run yet.
NoLocals ==
    /\ a_count' = 0
    /\ b_count' = 0
    /\ next_idx' = 0
    /\ idx' = 0
    /\ site' = None
    /\ flash_offset' = 0
    /\ data' = <<>>
    /\ i' = 0
    /\ op' = None
    /\ polls' = 0
    /\ sr' = 0

\* The bookkeeping at the call of an operation that may write.
Called ==
    /\ ret' = None
    /\ hwWrites' = 0
    /\ eraseCalls' = 0
    /\ pre' = scan
    /\ mem0' = mem

\* `let (a_count, b_count, next_idx) = meta.scan();`
spl_main_scan ==
    /\ pc = "spl_main"
    /\ scanRes' = scan
    /\ exhausted' = exhausted \cup Reached({MAX_TRIALS})
    /\ torn' = torn
    /\ pc' = "spl_main_choose"
    /\ UNCHANGED <<cfgVars, devVars, bootVars, progVars, waitVars, ret,
                   prevScan, choice, hwVars, callVars>>

\* `let bank = meta.choose_bank(MAX_TRIALS);`
spl_main_choose ==
    /\ pc = "spl_main_choose"
    /\ bank' = choose_bank(MAX_TRIALS)
    /\ choice' = <<bank', MAX_TRIALS>>
    /\ pc' = "spl_main_record"
    /\ UNCHANGED <<cfgVars, devVars, a_count, b_count, next_idx, idx,
                   progVars, waitVars, ret, scanRes, prevScan, exhausted, torn,
                   hwVars, callVars>>

\* `match meta.record_boot(bank)`: the call.
spl_main_record ==
    /\ pc = "spl_main_record"
    /\ Called
    /\ pc' = "record_boot"
    /\ UNCHANGED <<cfgVars, devVars, bootVars, progVars, waitVars, resVars,
                   lastCmd, wrote>>

\* The match as it would be with the result unwrapped: an Err panics.
spl_main_result_unwrapped ==
    /\ pc = "spl_main_result"
    /\ pc' = IF ret = Ok THEN "wfi" ELSE "panic"
    /\ NoLocals
    /\ UNCHANGED <<cfgVars, devVars, bank, ret, resVars, hwVars, callVars>>

\* The two arms of the match: a message either way, then "spl1 ok" and the
\* wfi loop; record_boot's frames are gone.
spl_main_result ==
    /\ pc = "spl_main_result"
    /\ pc' = "wfi"
    /\ NoLocals
    /\ UNCHANGED <<cfgVars, devVars, bank, ret, resVars, hwVars, callVars>>

\* A reset of the board: the device is back in read-array mode and _start
\* jumps to spl_main; the flash array is all that is kept.
Reboot ==
    /\ pc \in {"wfi", "panic"}
    /\ pc' = "spl_main"
    /\ devMode' = "array"
    /\ bank' = None
    /\ NoLocals
    /\ ret' = None
    /\ scanRes' = Nothing
    /\ choice' = Nothing
    /\ hwWrites' = 0
    /\ lastCmd' = 0
    /\ wrote' = FALSE
    /\ eraseCalls' = 0
    /\ pre' = Nothing
    /\ mem0' = Nothing
    /\ prevScan' = Nothing
    /\ torn' = Nothing
    /\ UNCHANGED <<cfgVars, mem, exhausted>>

\* Power is lost while spl_main runs, between two accesses to the device:
\* the flash keeps what was programmed or erased so far, the device powers
\* up in read-array mode and spl_main starts again. prevScan keeps the
\* counts the interrupted boot had read, torn the slot and the bank if the
\* loss left 1 to 3 bytes of record_boot's token in a slot that was erased.
PowerLoss ==
    /\ pc \notin {"wfi", "panic"}
    /\ caller = "spl_main"
    /\ pc' = "spl_main"
    /\ devMode' = "array"
    /\ bank' = None
    /\ NoLocals
    /\ ret' = None
    /\ prevScan' = scanRes
    /\ torn' = IF /\ site = "record_boot"
                  /\ mem0 # Nothing
                  /\ next_idx < words_capacity
                  /\ \A k \in 0..(WORD_SIZE - 1) :
                         mem0[word_offset(next_idx) + k] = 255
                  /\ TornSlot(mem, next_idx, bank)
               THEN <<next_idx, bank>>
               ELSE Nothing
    /\ scanRes' = Nothing
    /\ choice' = Nothing
    /\ hwWrites' = 0
    /\ lastCmd' = 0
    /\ wrote' = FALSE
    /\ eraseCalls' = 0
    /\ pre' = Nothing
    /\ mem0' = Nothing
    /\ UNCHANGED <<cfgVars, mem, exhausted>>

\* ------------------------------------------------------------ the harness

\* scan() as it would be if it put the device in read-array mode first.
CallScan_read_array ==
    /\ pc = "idle"
    /\ prevScan' = scanRes
    /\ scanRes' = scan
    /\ exhausted' = exhausted \cup Reached(0..MaxT)
    /\ torn' = torn
    /\ write_cmd8(CMD_READ_ARRAY)
    /\ pc' = "returned"
    /\ UNCHANGED <<cfgVars, devVars, bootVars, progVars, waitVars, ret,
                   choice, callVars>>

CallScan ==
    /\ pc = "idle"
    /\ prevScan' = scanRes
    /\ scanRes' = scan
    /\ exhausted' = exhausted \cup Reached(0..MaxT)
    /\ torn' = torn
    /\ pc' = "returned"
    /\ UNCHANGED <<cfgVars, devVars, bootVars, progVars, waitVars, ret,
                   choice, hwVars, callVars>>

CallChooseBank(max_trials) ==
    /\ pc = "idle"
    /\ choice' = <<choose_bank(max_trials), max_trials>>
    /\ exhausted' = exhausted \cup Reached({max_trials})
    /\ torn' = torn
    /\ pc' = "returned"
    /\ UNCHANGED <<cfgVars, devVars, bootVars, progVars, waitVars, ret,
                   scanRes, prevScan, hwVars, callVars>>

CallRecordBoot(b) ==
    /\ pc = "idle"
    /\ bank' = b
    /\ Called
    /\ pc' = "record_boot"
    /\ UNCHANGED <<cfgVars, devVars, a_count, b_count, next_idx, idx,
                   progVars, waitVars, resVars, lastCmd, wrote>>

CallProgram(offset, bytes) ==
    /\ pc = "idle"
    /\ Called
    /\ site' = "harness"
    /\ flash_offset' = offset
    /\ data' = bytes
    /\ i' = 0
    /\ pc' = "program"
    /\ UNCHANGED <<cfgVars, devVars, bootVars, waitVars, resVars, lastCmd,
                   wrote>>

\* program_byte(offset, value), called on its own.
CallProgramByte(offset, value) ==
    /\ pc = "idle"
    /\ Called
    /\ site' = "harness_byte"
    /\ flash_offset' = offset
    /\ data' = <<value>>
    /\ i' = 0
    /\ pc' = "program_byte"
    /\ UNCHANGED <<cfgVars, devVars, bootVars, waitVars, resVars, lastCmd,
                   wrote>>

\* The harness has looked at what the call returned; a scan result is kept
\* for the next scan unless the device was written to since.
Continue ==
    /\ pc = "returned"
    /\ pc' = "idle"
    /\ bank' = None
    /\ NoLocals
    /\ ret' = None
    /\ scanRes' = IF wrote THEN Nothing ELSE scanRes
    /\ prevScan' = Nothing
    /\ choice' = Nothing
    /\ exhausted' = exhausted
    /\ torn' = torn
    /\ hwWrites' = 0
    /\ wrote' = FALSE
    /\ eraseCalls' = 0
    /\ pre' = Nothing
    /\ mem0' = Nothing
    /\ UNCHANGED <<cfgVars, devVars, lastCmd>>

\* ------------------------------------------------------- initial states

\* The words a provisioned or worn log may hold: erased, the two tokens, a
\* BankA token cut after two bytes, and garbage.
InitWords ==
    { to_le_bytes(ERASED_WORD), to_le_bytes(TOKEN_BANK_A),
      to_le_bytes(TOKEN_BANK_B), <<17, 17, 255, 255>>, <<238, 238, 238, 238>> }

\* The addresses of a log of cap words at offset base, and of the word
\* that follows the region.
Addrs(base, cap) == base .. (base + (cap + 1) * WORD_SIZE - 1)

\* The flash array holding the words ws in the log, erased after it.
MemOf(base, cap, ws) ==
    [a \in Addrs(base, cap) |->
        LET n == (a - base) \div WORD_SIZE
            k == (a - base) % WORD_SIZE
        IN  IF n < cap THEN ws[n][k + 1] ELSE 255]

Logs(base, cap) == { MemOf(base, cap, ws) : ws \in [0..(cap - 1) -> InitWords] }

ErasedLog(base, cap) == MemOf(base, cap, [n \in 0..(cap - 1) |-> to_le_bytes(ERASED_WORD)])

\* The state at reset (spl_main) or before the harness's first call.
Start(d, c, cap) ==
    /\ driver = d
    /\ caller = c
    /\ flash = [block_size |-> cap * WORD_SIZE]
    /\ meta = [meta_offset |-> MetaBlock * cap * WORD_SIZE,
               meta_size |-> cap * WORD_SIZE]
    /\ devMode = "array"
    /\ pc = IF c = "spl_main" THEN "spl_main" ELSE "idle"
    /\ bank = None
    /\ a_count = 0
    /\ b_count = 0
    /\ next_idx = 0
    /\ idx = 0
    /\ site = None
    /\ flash_offset = 0
    /\ data = <<>>
    /\ i = 0
    /\ op = None
    /\ polls = 0
    /\ sr = 0
    /\ ret = None
    /\ scanRes = Nothing
    /\ prevScan = Nothing
    /\ choice = Nothing
    /\ exhausted = {}
    /\ torn = Nothing
    /\ hwWrites = 0
    /\ lastCmd = 0
    /\ eraseCalls = 0
    /\ wrote = FALSE
    /\ pre = Nothing
    /\ mem0 = Nothing

\* ----------------------------------------------------------- the machines

BootMetaStep ==
    \/ record_boot
    \/ compact
    \/ write_token

StubProgramStep ==
    \/ stub_program
    \/ stub_program_byte
    \/ stub_program_data

PollProgramStep ==
    \/ program
    \/ program_byte
    \/ program_cmd
    \/ program_data
    \/ wait_ready
    \/ \E s \in StatusVals : wait_loop(s)
    \/ program_byte_status

PollEraseStep ==
    \/ block_erase
    \/ erase_setup
    \/ erase_confirm
    \/ block_erase_status
    \/ compact_a
    \/ compact_b
    \/ rescan

SplMainStep ==
    \/ spl_main_scan
    \/ spl_main_choose
    \/ spl_main_record
    \/ spl_main_result

\* main.rs: spl_main over the polling driver, boot after boot, on any log.
Init ==
    /\ Start("poll", "spl_main", CapWords)
    /\ mem \in Logs(meta_offset, CapWords)

Step == SplMainStep \/ BootMetaStep \/ PollProgramStep \/ PollEraseStep

Next == Step \/ Reboot

Spec == Init /\ [][Next]_vars

\* One run of spl_main from reset, on any log: the processor never stops
\* before the wfi loop.
FairSpec == Init /\ [][Step]_vars /\ WF_vars(Step)

\* bootmeta.rs + flash_intel.rs under a harness calling the public
\* operations in any order, on any log.
InitLib ==
    /\ Start("stub", "harness", CapWords)
    /\ mem \in Logs(meta_offset, CapWords)

NextLib ==
    \/ CallScan
    \/ \E t \in 0..MaxT : CallChooseBank(t)
    \/ \E b \in BootBank : CallRecordBoot(b)
    \/ Continue
    \/ BootMetaStep
    \/ StubProgramStep
    \/ stub_block_erase

SpecLib == InitLib /\ [][NextLib]_vars

\* The bytes tried as stored byte and as value to program: those of two
\* equal nibbles (0x00, 0x11, ..., 0xFF), which hold the bytes of the tokens
\* and of the erased word, and every way one set of four bits can lie in
\* or out of another.
ProgramBytes == { 17 * n : n \in 0..15 }

\* Either driver under the harness, from an erased log, with a device that
\* completes every program and every erase at the first status read: no
\* power loss and no hardware failure.
InitErased ==
    /\ \E d \in {"stub", "poll"} : Start(d, "harness", CapWords)
    /\ mem = ErasedLog(meta_offset, CapWords)

NextErased ==
    \/ CallScan
    \/ \E b \in BootBank : CallRecordBoot(b)
    \/ Continue
    \/ BootMetaStep
    \/ StubProgramStep
    \/ stub_block_erase
    \/ program
    \/ program_byte
    \/ program_cmd
    \/ program_data
    \/ wait_ready
    \/ wait_loop(SR_WSM_READY)
    \/ program_byte_status
    \/ PollEraseStep

SpecErased == InitErased /\ [][NextErased]_vars

\* main.rs: spl_main boot after boot from an erased log, over a device that
\* completes every operation at the first status read, with power lost at
\* any point of a boot.
InitPowerLoss ==
    /\ Start("poll", "spl_main", CapWords)
    /\ mem = ErasedLog(meta_offset, CapWords)

NextPowerLoss ==
    \/ SplMainStep
    \/ BootMetaStep
    \/ program
    \/ program_byte
    \/ program_cmd
    \/ program_data
    \/ wait_ready
    \/ wait_loop(SR_WSM_READY)
    \/ program_byte_status
    \/ PollEraseStep
    \/ Reboot
    \/ PowerLoss

SpecPowerLoss == InitPowerLoss /\ [][NextPowerLoss]_vars

\* Words of the log in the boot-after-boot specifications: more than
\* MAX_TRIALS, so that bank A is chosen while the log has a free slot.
BootWords == 5

\* spl_main boot after boot from an erased log, over either driver and a
\* device that completes every operation at the first status read, with
\* power lost at any point of a boot.
InitTorn ==
    /\ \E d \in {"stub", "poll"} : Start(d, "spl_main", BootWords)
    /\ mem = ErasedLog(meta_offset, BootWords)

NextTorn ==
    \/ NextPowerLoss
    \/ StubProgramStep
    \/ stub_block_erase

SpecTorn == InitTorn /\ [][NextTorn]_vars

\* main.rs: spl_main boot after boot from an erased log, over a device that
\* may report any status.
InitBoots ==
    /\ Start("poll", "spl_main", BootWords)
    /\ mem = ErasedLog(meta_offset, BootWords)

SpecBoots == InitBoots /\ [][Next]_vars

\* The log the end-to-end scenario ends with: MAX_TRIALS BankB tokens, then
\* MAX_TRIALS BankA tokens.
ExhaustedLog(base) ==
    MemOf(base, 2 * MAX_TRIALS,
          [n \in 0..(2 * MAX_TRIALS - 1) |->
              IF n < MAX_TRIALS THEN to_le_bytes(TOKEN_BANK_B)
              ELSE to_le_bytes(TOKEN_BANK_A)])

\* main.rs: spl_main over the polling driver, boot after boot, from the
\* full log of 2 * MAX_TRIALS words that has both banks out of trials.
InitExhausted ==
    /\ Start("poll", "spl_main", 2 * MAX_TRIALS)
    /\ mem = ExhaustedLog(meta_offset)

SpecExhausted == InitExhausted /\ [][Next]_vars

\* One byte programmed over one stored byte, through program and through
\* program_byte, for every pair of ProgramBytes and both drivers.
InitByte ==
    /\ \E d \in {"stub", "poll"} : Start(d, "harness", CapWords)
    /\ \E c \in ProgramBytes :
         mem = [ErasedLog(meta_offset, CapWords) EXCEPT ![meta_offset] = c]

NextByte ==
    \/ \E v \in ProgramBytes : CallProgram(meta_offset, <<v>>)
    \/ \E v \in ProgramBytes : CallProgramByte(meta_offset, v)
    \/ StubProgramStep
    \/ PollProgramStep

SpecByte == InitByte /\ [][NextByte]_vars

\* The bytes of the tokens, of the erased word and of a garbage word.
WordBytes == {0, 17, 238, 255}

\* program(meta_offset, data) for every data of ProgLen WordBytes over every
\* stored content of WordBytes, both drivers.
InitProgram ==
    /\ \E d \in {"stub", "poll"} : Start(d, "harness", CapWords)
    /\ \E c \in [0..(ProgLen - 1) -> WordBytes] :
         mem = [a \in Addrs(meta_offset, CapWords) |->
                  IF a - meta_offset < ProgLen THEN c[a - meta_offset] ELSE 255]

NextProgram ==
    \/ \E bytes \in [1..ProgLen -> WordBytes] : CallProgram(meta_offset, bytes)
    \/ StubProgramStep
    \/ PollProgramStep

SpecProgram == InitProgram /\ [][NextProgram]_vars

\* The end-to-end scenario: spl_main over flash_intel.rs, boot after boot,
\* on an erased log of 2 * MAX_TRIALS words.
InitE2E ==
    /\ Start("stub", "spl_main", 2 * MAX_TRIALS)
    /\ mem = ErasedLog(meta_offset, 2 * MAX_TRIALS)

NextE2E ==
    SplMainStep \/ BootMetaStep \/ StubProgramStep \/ stub_block_erase \/ Reboot

SpecE2E == InitE2E /\ [][NextE2E]_vars

\* ------------------------------------------------- the log, byte by byte

\* The four stored bytes of slot n, lowest address first.
SlotBytes(n) == [k \in 1..WORD_SIZE |-> mem[word_offset(n) + k - 1]]

IsErased(n) == \A k \in 1..WORD_SIZE : SlotBytes(n)[k] = 255

IsTokenA(n) == \A k \in 1..WORD_SIZE : SlotBytes(n)[k] = 17

IsTokenB(n) == \A k \in 1..WORD_SIZE : SlotBytes(n)[k] = 0

IsToken(n) == IsTokenA(n) \/ IsTokenB(n)

Slots == 0..(words_capacity - 1)

\* The first slot that holds no token, or the capacity.
FirstFree ==
    IF \A n \in Slots : IsToken(n)
    THEN words_capacity
    ELSE CHOOSE n \in Slots : ~IsToken(n) /\ \A m \in 0..(n - 1) : IsToken(m)

CountA == Cardinality({n \in Slots : n < FirstFree /\ IsTokenA(n)})

CountB == Cardinality({n \in Slots : n < FirstFree /\ IsTokenB(n)})

\* A record_boot call has returned to the harness.
RecordBootReturned == pc = "returned" /\ bank # None

\* ------------------------------------------------------------------ claims

\* C1: choose_bank(T) is decided by the counts of the log alone: it returns
\* B if b_count < T, otherwise A if a_count < T, otherwise B.
C1_PolicyDeterminism ==
    (pc = "returned" /\ choice # Nothing) =>
        LET c == choice[1]
            t == choice[2]
        IN  /\ CountB < t => c = "B"
            /\ (CountB >= t /\ CountA < t) => c = "A"
            /\ (CountB >= t /\ CountA >= t) => c = "B"

\* choose_bank has returned A: bank B is out of trials and bank A is not.
C1_Witness ==
    /\ pc = "returned"
    /\ choice # Nothing
    /\ choice[1] = "A"
    /\ CountB >= choice[2]
    /\ CountA < choice[2]

\* C2 as stated: whenever scan() yields (a, b, n) with n < capacity and
\* record_boot(X) returns Ok, the following scan() yields n + 1, the count of
\* X one higher and the other count unchanged.
C2_AppendMonotonicity ==
    (RecordBootReturned /\ ret = Ok /\ pre[3] < words_capacity) =>
        scan = << pre[1] + (IF bank = "A" THEN 1 ELSE 0),
                  pre[2] + (IF bank = "B" THEN 1 ELSE 0),
                  pre[3] + 1 >>

\* C2 as amended: the same, when the slot after n is the end of the log or
\* holds no token.
C2_AppendMonotonicityAmended ==
    ( /\ RecordBootReturned
      /\ ret = Ok
      /\ pre[3] < words_capacity
      /\ (pre[3] + 1 < words_capacity => ~IsToken(pre[3] + 1)) ) =>
        scan = << pre[1] + (IF bank = "A" THEN 1 ELSE 0),
                  pre[2] + (IF bank = "B" THEN 1 ELSE 0),
                  pre[3] + 1 >>

\* record_boot(A) has returned Ok on a log that was neither empty nor full
\* in its last slot: an append in the middle of the log.
C2_Witness ==
    /\ RecordBootReturned
    /\ ret = Ok
    /\ bank = "A"
    /\ pre[3] + 1 < words_capacity
    /\ ~IsToken(pre[3] + 1)
    /\ scan[1] = pre[1] + 1

\* C3: on a full log record_boot calls block_erase before any write; when
\* the erase is not implemented it returns EraseError, has written nothing to
\* the device and the log is as it was.
C3_FullLog ==
    /\ (RecordBootReturned /\ pre[3] = words_capacity) =>
            /\ ret = "EraseError"
            /\ eraseCalls = 1
            /\ hwWrites = 0
            /\ mem = mem0
    /\ (pre # Nothing /\ bank # None /\ pre[3] = words_capacity) =>
            pc \in {"record_boot", "compact", "block_erase", "returned"}

\* record_boot(A) has returned EraseError on a full log.
C3_Witness ==
    /\ RecordBootReturned
    /\ bank = "A"
    /\ pre[3] = words_capacity
    /\ ret = "EraseError"
    /\ eraseCalls = 1

\* C4: program_byte(offset, value), where value has a bit set that the byte
\* stored at offset has not, returns ProgramError with no write to the device
\* and the stored byte unchanged, whether it is called on its own or by
\* program.
C4_BitTransitionSafety ==
    (data # <<>> /\ site \in {"harness", "harness_byte"}) =>
        LET current == mem0[flash_offset]
            value == data[1]
        IN  BitOr(value, current) # current =>
                /\ hwWrites = 0
                /\ mem = mem0
                /\ pc \in {"program", "program_byte", "returned"}
                /\ pc = "returned" => ret = "ProgramError"

\* C5: from an erased log of 2 * MAX_TRIALS words, the boots choose B while
\* the log holds fewer than MAX_TRIALS tokens, then A until it is full; each
\* of these records returns Ok and adds one token; the full log scans to
\* (MAX_TRIALS, MAX_TRIALS, capacity), chooses B, and its record_boot calls
\* block_erase.
C5_EndToEnd ==
    LET s == scan
        n == s[3]
        t == MAX_TRIALS
    IN  /\ words_capacity = 2 * t
        /\ pc = "spl_main_record" =>
             /\ n < t => (s = <<0, n, n>> /\ bank = "B")
             /\ (t <= n /\ n < 2 * t) => (s = <<n - t, t, n>> /\ bank = "A")
             /\ n >= 2 * t => (s = <<t, t, words_capacity>> /\ bank = "B")
        /\ pc = "spl_main_result" =>
             /\ pre[3] < words_capacity =>
                    (ret = Ok /\ n = pre[3] + 1 /\ eraseCalls = 0)
             /\ pre[3] = words_capacity => (eraseCalls = 1 /\ s = pre)

\* The ninth boot: the log is full with four tokens of each bank, B is
\* chosen and record_boot has gone through compact to block_erase.
C5_Witness ==
    /\ pc = "spl_main_result"
    /\ scan = <<4, 4, 8>>
    /\ bank = "B"
    /\ eraseCalls = 1

\* C6: scan() returns the number of BankA tokens and of BankB tokens before
\* the first slot that is not a token, and the index of that slot (the
\* capacity if there is none); tokens after that slot are not counted.
C6_ScanResult ==
    (scanRes # Nothing /\ ~wrote) => scanRes = <<CountA, CountB, FirstFree>>

\* scan() has returned on a log with an Unknown word followed by a token.
C6_Witness ==
    /\ pc = "returned"
    /\ scanRes # Nothing
    /\ ~wrote
    /\ scanRes[3] < words_capacity
    /\ ~IsErased(scanRes[3])
    /\ \E n \in Slots : n > scanRes[3] /\ IsToken(n)

\* C7: two scan() calls with no write to the device between them return the
\* same triple.
C7_IdempotentScan ==
    (pc = "returned" /\ prevScan # Nothing) => scanRes = prevScan

\* The second of two scans has returned, on a log that holds tokens.
C7_Witness ==
    /\ pc = "returned"
    /\ prevScan # Nothing
    /\ scanRes = prevScan
    /\ scanRes[3] > 0

\* C8: spl_main never panics, and whatever record_boot returns it goes on to
\* the wfi loop with the bank choose_bank returned.
C8_RecordNeverBlocksBoot ==
    /\ [](pc # "panic")
    /\ \A x \in BootBank :
         (pc = "spl_main_record" /\ bank = x)
            ~> (pc = "wfi" /\ bank = x /\ choice[1] = x)

\* spl_main is in the wfi loop after a compaction that failed on a full log.
C8_Witness ==
    /\ pc = "wfi"
    /\ ret \in FlashError
    /\ pre[3] = words_capacity
    /\ eraseCalls = 1

\* C9 as stated: once program_byte or block_erase has issued a command and
\* returned, the last command written is read-array and plain reads return
\* array data.
C9_ReturnsToReadArray ==
    (hwWrites > 0 /\ pc \in {"program", "compact_a", "compact_b", "rescan",
                             "write_token", "spl_main_result", "wfi"}) =>
        (lastCmd = CMD_READ_ARRAY /\ devMode = "array")

\* C10: wait_ready's loop ends: it reads the status at most MaxPolls times,
\* returns Ok with the first status that has the ready bit, and Timeout after
\* exactly MaxPolls reads without it, whatever the device returns.
C10_WaitReadyTerminates ==
    /\ [](pc = "wait_loop" => polls < MaxPolls)
    /\ [](pc \in {"program_status", "erase_status"} =>
            (Has(sr, SR_WSM_READY) /\ polls < MaxPolls))
    /\ []((pc = "spl_main_result" /\ ret = "Timeout") => polls = MaxPolls)
    /\ [][(pc = "wait_loop" /\ pc' = "wait_loop") => polls' = polls + 1]_vars
    /\ (pc = "wait_loop") ~> (pc # "wait_loop")

\* wait_ready has returned Timeout to program_byte and record_boot has
\* handed it to spl_main.
C10_Witness ==
    /\ pc = "spl_main_result"
    /\ ret = "Timeout"
    /\ op = "program"
    /\ polls = MaxPolls

\* Bit k of a status value.
StatusBit(status, k) == (status \div (2 ^ k)) % 2 = 1

\* C11: with a ready status, program_byte returns ProgramError if bit 4 is
\* set, else VppError if bit 3, else Protected if bit 1, else Ok (program
\* goes on with the next byte); block_erase returns EraseError if bit 5 is
\* set, else VppError if bit 3, else Protected if bit 1, else Ok (compact
\* goes on with its rewrite).
C11_StatusDecoding ==
    [][ /\ pc = "program_status" =>
            /\ StatusBit(sr, 7)
            /\ IF StatusBit(sr, 4)
                    THEN pc' = "spl_main_result" /\ ret' = "ProgramError"
               ELSE IF StatusBit(sr, 3)
                    THEN pc' = "spl_main_result" /\ ret' = "VppError"
               ELSE IF StatusBit(sr, 1)
                    THEN pc' = "spl_main_result" /\ ret' = "Protected"
               ELSE pc' = "program" /\ i' = i + 1 /\ ret' = ret
        /\ pc = "erase_status" =>
            /\ StatusBit(sr, 7)
            /\ IF StatusBit(sr, 5)
                    THEN pc' = "spl_main_result" /\ ret' = "EraseError"
               ELSE IF StatusBit(sr, 3)
                    THEN pc' = "spl_main_result" /\ ret' = "VppError"
               ELSE IF StatusBit(sr, 1)
                    THEN pc' = "spl_main_result" /\ ret' = "Protected"
               ELSE pc' = "compact_a" /\ ret' = ret ]_vars

\* program_byte has returned ProgramError for a ready status that also has
\* the Vpp and the protection bits.
C11_Witness ==
    /\ pc = "spl_main_result"
    /\ op = "program"
    /\ sr = 154
    /\ ret = "ProgramError"

\* C12: program(offset, data) goes through the bytes in increasing order:
\* at every moment the bytes before index i hold their new values and the
\* bytes after it are as they were; it returns Ok after the last byte, and
\* an error at the first byte i that fails, with byte i and the bytes after
\* it as they were.
C12_ProgramNoRollback ==
    (site = "harness" /\ data # <<>>) =>
        /\ i <= Len(data)
        /\ \A k \in 0..(Len(data) - 1) :
              /\ k < i => mem[flash_offset + k] = data[k + 1]
              /\ k > i => mem[flash_offset + k] = mem0[flash_offset + k]
        /\ (pc = "returned" /\ ret = Ok) => i = Len(data)
        /\ (pc = "returned" /\ ret # Ok) =>
              /\ ret \in FlashError
              /\ i < Len(data)
              /\ mem[flash_offset + i] = mem0[flash_offset + i]

\* program over flash_intel.rs has returned ProgramError at its second
\* byte, the first one programmed and kept.
C12_Witness ==
    /\ pc = "returned"
    /\ driver = "stub"
    /\ site = "harness"
    /\ i = 1
    /\ ret = "ProgramError"
    /\ mem[flash_offset] = data[1]
    /\ mem[flash_offset] # mem0[flash_offset]

SlotBytes0(n) == [k \in 1..WORD_SIZE |-> mem0[word_offset(n) + k - 1]]

\* Slot n held neither the erased word nor a token when the operation was
\* called.
WasUnknown(n) ==
    /\ \E k \in 1..WORD_SIZE : SlotBytes0(n)[k] # 255
    /\ \E k \in 1..WORD_SIZE : SlotBytes0(n)[k] # 17
    /\ \E k \in 1..WORD_SIZE : SlotBytes0(n)[k] # 0

HoldsToken(n, x) == \A k \in 1..WORD_SIZE : SlotBytes(n)[k] = TokenByte(x)

\* The token of bank x sets no bit that slot n had clear at the call.
Programmable(n, x) ==
    \A k \in 1..WORD_SIZE :
        \A e \in 0..7 :
            (TokenByte(x) \div (2 ^ e)) % 2 <= (SlotBytes0(n)[k] \div (2 ^ e)) % 2

\* C14 as stated: when scan() reports k < capacity and slot k holds an
\* Unknown word, record_boot(X) returns with X's token in slot k.
C14_ReclaimCorruptSlot ==
    (RecordBootReturned /\ pre[3] < words_capacity /\ WasUnknown(pre[3])) =>
        HoldsToken(pre[3], bank)

\* C14 as amended: record_boot(X) writes to slot k only; it returns Ok with
\* X's token in slot k when the token sets no bit the Unknown word has
\* clear, and ProgramError without the token in slot k otherwise.
C14_ReclaimCorruptSlotAmended ==
    (RecordBootReturned /\ pre[3] < words_capacity /\ WasUnknown(pre[3])) =>
        LET k == pre[3] IN
        /\ \A a \in DOMAIN mem :
              (a < word_offset(k) \/ a >= word_offset(k + 1)) => mem[a] = mem0[a]
        /\ Programmable(k, bank) => (ret = Ok /\ HoldsToken(k, bank))
        /\ ~Programmable(k, bank) =>
              (ret = "ProgramError" /\ ~HoldsToken(k, bank))

\* record_boot(A) has returned Ok after writing BankA's token over a word
\* that was neither erased nor a token.
C14_Witness ==
    /\ RecordBootReturned
    /\ pre[3] < words_capacity
    /\ WasUnknown(pre[3])
    /\ bank = "A"
    /\ ret = Ok
    /\ HoldsToken(pre[3], "A")

\* C15: where block_erase is not implemented, it returns EraseError without
\* a write to the device; once the log is full no flash byte changes any
\* more, so the log stays full and scan() keeps its result; and every
\* record_boot on the full log calls block_erase once and returns
\* EraseError.
C15_StubEraseForeverFull ==
    /\ [][ pc = "block_erase" =>
              /\ ret' = "EraseError"
              /\ pc' = "returned"
              /\ UNCHANGED <<mem, devMode, hwWrites, lastCmd>> ]_vars
    /\ [][ scan[3] = words_capacity => (mem' = mem /\ scan' = scan) ]_vars
    /\ []( (RecordBootReturned /\ pre[3] = words_capacity) =>
              /\ ret = "EraseError"
              /\ eraseCalls = 1
              /\ hwWrites = 0
              /\ scan = pre )

\* record_boot(B) has returned EraseError on a full log, which scans as it
\* did before the call.
C15_Witness ==
    /\ RecordBootReturned
    /\ bank = "B"
    /\ pre[3] = words_capacity
    /\ ret = "EraseError"
    /\ scan = pre
    /\ mem = mem0

\* C16: once a scan() has reported both counts at or above T, every
\* choose_bank(T) returns B, whatever record_boot calls came in between.
C16_ExhaustionTerminal ==
    (choice # Nothing /\ choice[2] \in exhausted) => choice[1] = "B"

\* C17: a call of scan() or of choose_bank() writes nothing to the device
\* and changes no flash byte, so scan() gives after it what it gave before.
C17_QueriesReadOnly ==
    [][ (pc = "idle" /\ pc' = "returned") =>
            /\ mem' = mem
            /\ devMode' = devMode
            /\ hwWrites' = hwWrites
            /\ lastCmd' = lastCmd
            /\ wrote' = wrote
            /\ eraseCalls' = eraseCalls
            /\ scan' = scan ]_vars

\* choose_bank has returned after an earlier scan(), with no write in
\* between, and the log still scans as that scan() said.
C17_Witness ==
    /\ pc = "returned"
    /\ choice # Nothing
    /\ scanRes # Nothing
    /\ ~wrote
    /\ scanRes[3] > 0
    /\ scanRes = scan

\* C18: every write_word of record_boot and of compact is given a slot
\* below the capacity, and no byte outside the log region is programmed.
C18_WritesInsideRegion ==
    /\ (site \in {"record_boot", "compact_a", "compact_b"} /\ data # <<>>) =>
            /\ meta_offset <= flash_offset
            /\ flash_offset + Len(data) <= meta_offset + meta_size
    /\ pc = "write_token" => next_idx < words_capacity
    /\ \A a \in DOMAIN mem : a >= meta_offset + meta_size => mem[a] = 255

\* C19: from an erased log, with no power loss and no hardware failure,
\* between record_boot calls the log is a run of tokens followed by erased
\* slots only: no Unknown word, no token after an erased slot.
C19_LogShape ==
    pc \in {"idle", "returned"} =>
        \E k \in 0..words_capacity :
            \A n \in Slots :
                /\ n < k => IsToken(n)
                /\ n >= k => IsErased(n)

\* record_boot(A) has returned Ok after an earlier record_boot(B): the log
\* is a BankB token, a BankA token, then erased slots.
C19_Witness ==
    /\ RecordBootReturned
    /\ bank = "A"
    /\ ret = Ok
    /\ IsTokenB(0)
    /\ IsTokenA(1)
    /\ \A n \in Slots : n > 1 => IsErased(n)

\* C20: the counts scan() reports on the boot after a power loss are not
\* lower than the counts the interrupted boot had read.
C20_CountsSurvivePowerLoss ==
    (pc = "spl_main_choose" /\ prevScan # Nothing) =>
        /\ scanRes[1] >= prevScan[1]
        /\ scanRes[2] >= prevScan[2]

\* C21: after power was lost with 1 to 3 bytes of the token programmed into
\* erased slot n, the next boot's scan() reports the counts the interrupted
\* boot had read with next_free_index = n, choose_bank returns the bank of
\* the torn token, and record_boot of it returns Ok, leaves the complete
\* token in slot n and that bank's count one higher.
C21_TornAppendRecovery ==
    torn # Nothing =>
        LET n == torn[1]
            x == torn[2]
        IN  /\ pc \in {"spl_main_choose", "spl_main_record", "spl_main_result"} =>
                    /\ scanRes = prevScan
                    /\ scanRes[3] = n
            /\ pc \in {"spl_main_record", "spl_main_result"} => choice[1] = x
            /\ pc = "spl_main_result" =>
                    /\ ret = Ok
                    /\ HoldsToken(n, x)
                    /\ scan = << prevScan[1] + (IF x = "A" THEN 1 ELSE 0),
                                 prevScan[2] + (IF x = "B" THEN 1 ELSE 0),
                                 n + 1 >>

\* The boot after an interrupted one has completed the torn BankA token of
\* the slot after MAX_TRIALS BankB tokens.
C21_Witness ==
    /\ pc = "spl_main_result"
    /\ prevScan # Nothing
    /\ scanRes = prevScan
    /\ torn = <<MAX_TRIALS, "A">>
    /\ TornSlot(mem0, MAX_TRIALS, "A")
    /\ ret = Ok
    /\ HoldsToken(MAX_TRIALS, "A")

\* C22: from an erased log, after any number of boots the log holds at most
\* MAX_TRIALS BankA tokens, and holds a BankA token only if it holds at
\* least MAX_TRIALS BankB tokens.
C22_BankPreference ==
    pc = "wfi" =>
        /\ CountA <= MAX_TRIALS
        /\ CountA > 0 => CountB >= MAX_TRIALS

====
